---------------------------- MODULE Spec2Model ----------------------------
(***************************************************************************)
(* Model of the streaming response protocol and tool-call dispatch of the  *)
(* meebo robot: LLMClient (src/src/brain/llm_client.py) and its callers    *)
(* MeeboRobot._process_streaming and main() (src/src/main.py).             *)
(*                                                                         *)
(* Text is modelled at character level: a Python str is a sequence of      *)
(* one-character strings, so str.split, str.strip, str.find and the `in`   *)
(* test are computed as Python computes them.                              *)
(***************************************************************************)
EXTENDS Integers, Sequences, FiniteSets, TLC

(***************************************************************************)
(* Bounds of the model.                                                    *)
(***************************************************************************)
\* lines of one streaming response body the server sends before it closes
MaxLines == 2

(***************************************************************************)
(* String literals of the source, as character sequences.                  *)
(***************************************************************************)
THOUGHTS_MARK == <<"T","H","O","U","G","H","T","S",":">>
ACTIONS_MARK == <<"A","C","T","I","O","N","S",":">>

n_get_motor_status == <<"g","e","t","_","m","o","t","o","r","_","s","t","a","t","u","s">>
n_check_battery == <<"c","h","e","c","k","_","b","a","t","t","e","r","y">>
n_move_forward == <<"m","o","v","e","_","f","o","r","w","a","r","d">>
n_move_backward == <<"m","o","v","e","_","b","a","c","k","w","a","r","d">>
n_turn_left == <<"t","u","r","n","_","l","e","f","t">>
n_turn_right == <<"t","u","r","n","_","r","i","g","h","t">>
n_stop == <<"s","t","o","p">>
n_speak == <<"s","p","e","a","k">>
n_listen == <<"l","i","s","t","e","n">>
n_capture_image == <<"c","a","p","t","u","r","e","_","i","m","a","g","e">>

(***************************************************************************)
(* Python str operations.  Indices are 1-based; "not found" is 0.          *)
(***************************************************************************)
\* str.isspace for the characters of the model's alphabet
IsSpace(c) == c \in {" ", "\n"}

RECURSIVE FirstNonSpace(_, _)
\* index of the first character at or after i that is not whitespace
FirstNonSpace(s, i) ==
    IF i <= Len(s) /\ IsSpace(s[i]) THEN FirstNonSpace(s, i + 1) ELSE i

RECURSIVE LastNonSpace(_, _)
\* index of the last character at or before i that is not whitespace
LastNonSpace(s, i) ==
    IF i >= 1 /\ IsSpace(s[i]) THEN LastNonSpace(s, i - 1) ELSE i

\* str.strip()
Strip(s) == SubSeq(s, FirstNonSpace(s, 1), LastNonSpace(s, Len(s)))

\* does m occur in s at position i
OccursAt(s, m, i) ==
    /\ i + Len(m) - 1 <= Len(s)
    /\ \A k \in 1..Len(m) : s[i + k - 1] = m[k]

RECURSIVE FindFrom(_, _, _)
FindFrom(s, m, i) ==
    IF i + Len(m) - 1 > Len(s) THEN 0
    ELSE IF OccursAt(s, m, i) THEN i
    ELSE FindFrom(s, m, i + 1)

\* str.find(m): position of the first occurrence
Find(s, m) == FindFrom(s, m, 1)

RECURSIVE RFindFrom(_, _, _)
RFindFrom(s, c, i) ==
    IF i = 0 THEN 0 ELSE IF s[i] = c THEN i ELSE RFindFrom(s, c, i - 1)

\* str.rfind(c) for a one-character c
RFind(s, c) == RFindFrom(s, c, Len(s))

\* `m in s`
Contains(s, m) == Find(s, m) # 0

\* s.split(m, 1)
Split1(s, m) ==
    LET i == Find(s, m)
    IN  IF i = 0 THEN <<s>>
        ELSE <<SubSeq(s, 1, i - 1), SubSeq(s, i + Len(m), Len(s))>>

RECURSIVE SplitFrom(_, _, _, _)
\* the pieces of s[start..] between the occurrences of the character c,
\* scanning from position i
SplitFrom(s, c, start, i) ==
    IF i > Len(s) THEN <<SubSeq(s, start, Len(s))>>
    ELSE IF s[i] = c
         THEN <<SubSeq(s, start, i - 1)>> \o SplitFrom(s, c, i + 1, i + 1)
         ELSE SplitFrom(s, c, start, i + 1)

\* s.split(c) for a one-character c
SplitAll(s, c) == SplitFrom(s, c, 1, 1)

\* str.endswith(c) for a one-character c
EndsWith(s, c) == s # <<>> /\ s[Len(s)] = c

RECURSIVE Concat(_)
\* "".join(ss)
Concat(ss) == IF ss = <<>> THEN <<>> ELSE Head(ss) \o Concat(Tail(ss))

(***************************************************************************)
(* json.loads on a parameter value.  A decoded value is tagged with its    *)
(* Python type: <<"int", d1, .., dn>> (the canonical digits), <<"bool",..>>,*)
(* <<"none">>, <<"list", d1, .., dn>> (the one-element array [d1..dn]); a  *)
(* value json.loads rejects stays the raw string, <<"str", c1, .., cn>>.   *)
(* The model's alphabet has no quote, brace, sign or dot, and its inputs   *)
(* write no other array, so no other JSON value can be written in it.      *)
(***************************************************************************)
Digits == {"0", "1", "2", "3", "4", "5", "6", "7", "8", "9"}

IsJsonInt(w) ==
    /\ w # <<>>
    /\ \A i \in 1..Len(w) : w[i] \in Digits
    /\ (Len(w) > 1 => w[1] # "0")

\* mutant: no conversion, every value stays the string that was written
JsonLoadsMutKeepsString(value) == <<"str">> \o value

JsonLoads(value) ==
    LET w == Strip(value)
    IN  IF IsJsonInt(w) THEN <<"int">> \o w
        ELSE IF w = <<"t","r","u","e">> THEN <<"bool", "True">>
        ELSE IF w = <<"f","a","l","s","e">> THEN <<"bool", "False">>
        ELSE IF w = <<"n","u","l","l">> THEN <<"none">>
        ELSE IF /\ Len(w) > 2
                /\ w[1] = "[" /\ w[Len(w)] = "]"
                /\ IsJsonInt(SubSeq(w, 2, Len(w) - 1))
             THEN <<"list">> \o SubSeq(w, 2, Len(w) - 1)
        ELSE <<"str">> \o value

(***************************************************************************)
(* Tool definitions and the capability registry (self.tools).              *)
(* A tool definition is [fmt, name]: fmt "full" has "type" and "function", *)
(* fmt "simple" has "name" and "description", fmt "invalid" has neither.   *)
(***************************************************************************)
FullTool(n) == [fmt |-> "full", name |-> n]
SimpleTool(n) == [fmt |-> "simple", name |-> n]

ROBOT_TOOLS ==
    << FullTool(n_get_motor_status), FullTool(n_check_battery),
       FullTool(n_move_forward), FullTool(n_move_backward),
       FullTool(n_turn_left), FullTool(n_turn_right), FullTool(n_stop),
       FullTool(n_speak), FullTool(n_listen), FullTool(n_capture_image) >>

RECURSIVE PrepareTools(_)
\* LLMClient._prepare_tools: full definitions are kept, simple ones are
\* converted, anything else is skipped; None and [] give [].
PrepareTools(ts) ==
    IF ts = <<>> THEN <<>>
    ELSE LET t == Head(ts)
             rest == PrepareTools(Tail(ts))
         IN  IF t.fmt = "full" THEN <<t>> \o rest
             ELSE IF t.fmt = "simple" THEN <<FullTool(t.name)>> \o rest
             ELSE rest

\* the names _is_valid_tool collects in available_tools
AvailableTools(ts) ==
    LET valid_tools == PrepareTools(ts)
    IN  {valid_tools[i].name : i \in DOMAIN valid_tools}

\* mutant: validation accepts every tool name
IsValidToolMutAcceptAll(tool_name, ts) == TRUE

\* LLMClient._is_valid_tool
IsValidTool(tool_name, ts) == tool_name \in AvailableTools(ts)

(***************************************************************************)
(* LLMClient._parse_llm_response                                           *)
(***************************************************************************)
RECURSIVE ParseParams(_)
\* the loop over params_str.split(","): a token without "=" is skipped, a
\* later key overwrites an earlier one
ParseParams(ps) ==
    IF ps = <<>> THEN <<>>
    ELSE LET param == Strip(ps[Len(ps)])
             before == ParseParams(SubSeq(ps, 1, Len(ps) - 1))
         IN  IF Contains(param, <<"=">>)
             THEN LET kv == Split1(param, <<"=">>)
                  IN  (Strip(kv[1]) :> JsonLoads(kv[2])) @@ before
             ELSE before

RECURSIVE ParseLines(_, _)
\* the loop over actions_text.split("\n")
ParseLines(lines, ts) ==
    IF lines = <<>> THEN <<>>
    ELSE LET line == Strip(Head(lines))
             rest == ParseLines(Tail(lines), ts)
         IN  IF line = <<>> THEN rest
             ELSE IF Contains(line, <<"(">>) /\ EndsWith(line, ")")
             THEN LET open == Find(line, <<"(">>)
                      tool_name == Strip(SubSeq(line, 1, open - 1))
                      params_str == Strip(SubSeq(line, open + 1, RFind(line, ")") - 1))
                  IN  IF ~IsValidTool(tool_name, ts) THEN rest
                      ELSE << [tool |-> tool_name,
                               params |-> IF params_str # <<>>
                                          THEN ParseParams(SplitAll(params_str, ","))
                                          ELSE <<>>] >> \o rest
             ELSE rest

\* mutant: the lines of the actions block are read even without the
\* "ACTIONS:" marker
ParseLLMResponseMutNoMarker(response_text, ts) ==
    LET sections == Split1(response_text, THOUGHTS_MARK)
        actions_text == Strip(sections[1])
        thoughts_text == IF Len(sections) > 1 THEN Strip(sections[2]) ELSE <<>>
        actions ==
            IF Contains(actions_text, ACTIONS_MARK)
            THEN ParseLines(
                     SplitAll(Strip(Split1(actions_text, ACTIONS_MARK)[2]), "\n"), ts)
            ELSE ParseLines(SplitAll(actions_text, "\n"), ts)
    IN  [thoughts |-> thoughts_text, actions |-> actions]

ParseLLMResponse(response_text, ts) ==
    LET sections == Split1(response_text, THOUGHTS_MARK)
        actions_text == Strip(sections[1])
        thoughts_text == IF Len(sections) > 1 THEN Strip(sections[2]) ELSE <<>>
        actions ==
            IF Contains(actions_text, ACTIONS_MARK)
            THEN ParseLines(
                     SplitAll(Strip(Split1(actions_text, ACTIONS_MARK)[2]), "\n"), ts)
            ELSE <<>>
    IN  [thoughts |-> thoughts_text, actions |-> actions]

(***************************************************************************)
(* The inference server's side: what one turn can send.                    *)
(***************************************************************************)
\* text deltas ("response" fields) the model's output is made of
fA == ACTIONS_MARK \o <<"\n">> \o n_stop \o <<"(", ")", "\n">>
fS == n_stop \o <<"(", ")", "\n">>
fU == <<"f","l","y","(",")","\n","t","e","l","e","p","o","r","t","(","x","=","5",")","\n">>
fM == ACTIONS_MARK \o <<"\n">> \o n_turn_left \o <<"(","s","p","e","e","d","=","3","0",")">>
fW == <<" ","n","o","w","\n">>
fH == <<"\n">> \o THOUGHTS_MARK \o <<"\n","o","k">>
Fragments == {fA, fS, fU, fM, fW, fH}

\* continuation tokens ("context" fields): lists of integers
Tokens == {<<1, 2>>, <<3>>}

\* a dict with no key
NoKeys == <<>>

\* the JSON objects of a streaming body: every field is optional
\* ("done": false behaves as an absent "done", chunk.get("done", False))
Chunks ==
    { r @@ c @@ d :
        r \in {NoKeys} \cup {[response |-> f] : f \in Fragments},
        c \in {NoKeys} \cup {[context |-> t] : t \in Tokens},
        d \in {NoKeys, [done |-> TRUE]} }

RECURSIVE TextsOf(_)
\* the texts made of at most n text deltas
TextsOf(n) ==
    IF n = 0 THEN {<<>>}
    ELSE LET shorter == TextsOf(n - 1)
         IN  shorter \cup {t \o f : t \in shorter, f \in Fragments}

\* the complete texts a non-streaming answer can carry
Texts == TextsOf(MaxLines)

\* the JSON objects of a non-streaming body
Results ==
    { r @@ c :
        r \in {NoKeys} \cup {[response |-> t] : t \in Texts},
        c \in {NoKeys} \cup {[context |-> t] : t \in Tokens} }

\* HTTP status codes the server answers with
StatusCodes == {200, 404, 500}

\* the tools arguments of the callers: None, ROBOT_TOOLS (main.py), and a
\* two-tool list given in the simple format
TwoTools == <<SimpleTool(n_move_forward), SimpleTool(n_stop)>>
None == <<>>

(***************************************************************************)
(* State                                                                   *)
(***************************************************************************)
VARIABLES
    context,               \* LLMClient.context
    tools,                 \* LLMClient.tools
    pc,                    \* "idle", "open" (request not yet answered),
                           \* "stream" (reading response.iter_lines()), "ended"
    caller,                \* who drives the turn: "robot" (MeeboRobot._process_streaming),
                           \* "main" (main()), "example" (examples/, direct use)
    complete_response,     \* process_streaming's local buffer
    response_count,        \* process_streaming's local counter
    last_actions,          \* process_streaming's local
    accumulated_response,  \* _process_streaming's nonlocal
    response,              \* what process() returned in this turn
    yielded,               \* history: the elements process_streaming yielded in this turn
    executed,              \* history: the (tool, params) calls made to the Tool Executor in this turn
    deltas,                \* history: the "response" fields received in this turn
    requests,              \* history: requests.post calls made in this turn
    nlines,                \* lines read from the body in this turn
    events,                \* history: what the server and the transport did in this turn
    latest,                \* history: <<token>> for the last continuation token the
                           \* server delivered in this turn, <<>> when it delivered none
    held,                  \* history: <<self.context>> as it was when the latest element
                           \* was passed to the callback and yielded, <<>> before that
    batch,                 \* the tool_calls given to MeeboRobot._handle_tool_calls
    outcome,               \* what _handle_tool_calls did with the batch
    motors,                \* MotorController.speeds and MotorController.directions
    last_cmd,              \* history: the last MotorController command, <<>> before the first
    hardware,              \* how the robot was constructed: "dev" (simulation),
                           \* "pi" (physical), "pi_no_gpio" (physical asked for,
                           \* RPi.GPIO missing: the components fell back to simulation)
    loop,                  \* MeeboRobot.start(): "constructed", "running",
                           \* "interrupted", "crashed"
    stopped                \* MeeboRobot.stop(): "no" (not called), "clean"
                           \* (returned), "raised" (left by an exception)

vars == <<context, tools, pc, caller, complete_response, response_count,
          last_actions, accumulated_response, response, yielded, executed,
          deltas, requests, nlines, events, latest, held, batch, outcome,
          motors, last_cmd, hardware, loop, stopped>>

\* the state of the LLM client and its callers, of the tool executor, and of
\* the robot's motors and control loop
toolvars == <<batch, outcome>>
robotvars == <<motors, last_cmd, hardware, loop, stopped>>
clientvars == <<context, tools, pc, caller, complete_response, response_count,
                last_actions, accumulated_response, response, yielded, executed,
                deltas, requests, nlines, events, latest, held>>

NoResponse == [none |-> TRUE]

\* the elements _process_streaming and process() build on an error
ErrorElement(msg) ==
    [thoughts |-> <<"Error: ", msg>>, actions |-> <<>>, complete |-> TRUE]
ErrorResponse(msg) == [thoughts |-> <<"Error: ", msg>>, actions |-> <<>>]

StatusMsg(code) ==
    IF code = 404 THEN "Error from LLM API: 404" ELSE "Error from LLM API: 500"

\* the entry of `events` for an answered request
StatusEvent(code) ==
    IF code = 200 THEN "status_200"
    ELSE IF code = 404 THEN "status_404" ELSE "status_500"

\* _handle_tool_calls has not been called
NoOutcome == [pending |-> TRUE]

\* MotorController.__init__: both motors at speed 0, direction 0
MotorsAtRest ==
    [speeds |-> [left |-> 0, right |-> 0], directions |-> [left |-> 0, right |-> 0]]

\* MeeboRobot.__init__ in development mode, start() not yet called
RobotConstructed ==
    /\ motors = MotorsAtRest
    /\ last_cmd = <<>>
    /\ hardware = "dev"
    /\ loop = "constructed"
    /\ stopped = "no"

Init ==
    /\ context = <<>>
    /\ tools = ROBOT_TOOLS
    /\ pc = "idle"
    /\ caller = "none"
    /\ complete_response = <<>>
    /\ response_count = 0
    /\ last_actions = <<>>
    /\ accumulated_response = NoKeys
    /\ response = NoResponse
    /\ yielded = <<>>
    /\ executed = <<>>
    /\ deltas = <<>>
    /\ requests = 0
    /\ nlines = 0
    /\ events = <<>>
    /\ latest = <<>>
    /\ held = <<>>
    /\ batch = <<>>
    /\ outcome = NoOutcome
    /\ RobotConstructed

(***************************************************************************)
(* The Tool Executor and the consumers of a turn's output.                 *)
(***************************************************************************)
RECURSIVE HandleToolCalls(_)
\* MeeboRobot._handle_tool_calls: the calls that reach _execute_tool
HandleToolCalls(tool_calls) ==
    IF tool_calls = <<>> THEN <<>>
    ELSE LET tc == Head(tool_calls)
         IN  (IF "function" \in DOMAIN tc
              THEN <<[tool |-> tc.function.name, params |-> tc.function.arguments]>>
              ELSE <<>>) \o HandleToolCalls(Tail(tool_calls))

\* the calls streaming_callback(chunk) makes: only a chunk with a "raw_chunk"
\* that has "tool_calls" is dispatched (the "text" branch needs a "text" key)
CallbackCalls(chunk) ==
    IF "raw_chunk" \in DOMAIN chunk /\ "tool_calls" \in DOMAIN chunk.raw_chunk
    THEN HandleToolCalls(chunk.raw_chunk.tool_calls)
    ELSE <<>>

\* accumulated_response after streaming_callback(chunk)
CallbackAccumulated(acc, chunk) ==
    IF "complete" \in DOMAIN chunk /\ chunk.complete THEN chunk ELSE acc

\* the calls made after the for loop of _process_streaming
AfterLoopCalls(acc) ==
    IF acc # NoKeys /\ "tool_calls" \in DOMAIN acc
    THEN HandleToolCalls(acc.tool_calls)
    ELSE <<>>

\* mutant: the loop runs over the action list from its end
MainLoopCallsMutReversed(resp) ==
    [i \in 1..Len(resp.actions) |->
        [tool |-> resp.actions[Len(resp.actions) + 1 - i].tool,
         params |-> resp.actions[Len(resp.actions) + 1 - i].params]]

\* main(): for action in response["actions"]: llm_client.execute_tool(...)
MainLoopCalls(resp) ==
    [i \in 1..Len(resp.actions) |->
        [tool |-> resp.actions[i].tool, params |-> resp.actions[i].params]]

(***************************************************************************)
(* process_streaming                                                       *)
(***************************************************************************)
\* mutant: a caller starts a turn while the previous stream is still read
StartStreamingMutOverlaps(c, toolsArg) ==
    /\ pc \in {"idle", "stream"}
    /\ tools' = PrepareTools(IF toolsArg = None THEN tools ELSE toolsArg)
    /\ caller' = c
    /\ complete_response' = <<>>
    /\ response_count' = 0
    /\ last_actions' = <<>>
    /\ accumulated_response' = NoKeys
    /\ pc' = "open"
    /\ UNCHANGED <<context, response, yielded, executed, deltas, requests, nlines,
                   events, latest, held, batch, outcome, robotvars>>

\* lines 192-199: the generator's prologue; the callers (start(), the examples)
\* call it from one thread, after the previous call has returned
StartStreaming(c, toolsArg) ==
    /\ pc = "idle"
    /\ tools' = PrepareTools(IF toolsArg = None THEN tools ELSE toolsArg)
    /\ caller' = c
    /\ complete_response' = <<>>
    /\ response_count' = 0
    /\ last_actions' = <<>>
    /\ accumulated_response' = NoKeys
    /\ pc' = "open"
    /\ UNCHANGED <<context, response, yielded, executed, deltas, requests, nlines,
                   events, latest, held, batch, outcome, robotvars>>

\* mutant: after its final element the generator goes on reading the body
ExhaustMutKeepsReading(acc, ex) ==
    /\ pc' = "stream"
    /\ executed' = ex

\* the generator ends: the consumer's for loop ends and, for the robot, the
\* check of accumulated_response after the loop runs (main.py 195-196)
Exhaust(acc, ex) ==
    /\ pc' = "ended"
    /\ executed' = ex \o (IF caller = "robot" THEN AfterLoopCalls(acc) ELSE <<>>)

\* requests.post raises a RequestException (connection refused, timeout)
PostFails ==
    /\ pc = "open"
    /\ requests' = requests + 1
    /\ yielded' = Append(yielded, ErrorElement("Request failed"))
    /\ Exhaust(accumulated_response, executed)
    /\ UNCHANGED <<context, tools, caller, complete_response, response_count,
                   last_actions, accumulated_response, response, deltas, nlines>>
    /\ events' = Append(events, "post_failed")
    /\ UNCHANGED <<latest, held, batch, outcome, robotvars>>

\* mutant: after the error element of a non-200 answer the body is read anyway
PostAnsweredMutReadsBody(code) ==
    /\ pc = "open"
    /\ requests' = requests + 1
    /\ pc' = "stream"
    /\ yielded' = IF code = 200 THEN yielded
                  ELSE Append(yielded, ErrorElement(StatusMsg(code)))
    /\ events' = Append(events, StatusEvent(code))
    /\ UNCHANGED <<latest, held, batch, outcome, robotvars>>
    /\ UNCHANGED <<context, tools, caller, complete_response, response_count,
                   last_actions, accumulated_response, response, deltas, nlines,
                   executed>>

\* requests.post returns a response with this status code
PostAnswered(code) ==
    /\ pc = "open"
    /\ requests' = requests + 1
    /\ IF code = 200
       THEN /\ pc' = "stream"
            /\ UNCHANGED <<yielded, executed>>
       ELSE /\ yielded' = Append(yielded, ErrorElement(StatusMsg(code)))
            /\ Exhaust(accumulated_response, executed)
    /\ UNCHANGED <<context, tools, caller, complete_response, response_count,
                   last_actions, accumulated_response, response, deltas, nlines>>
    /\ events' = Append(events, StatusEvent(code))
    /\ UNCHANGED <<latest, held, batch, outcome, robotvars>>

\* iter_lines yields an empty line: `if line:` skips it
LineEmpty ==
    /\ pc = "stream" /\ nlines < MaxLines
    /\ nlines' = nlines + 1
    /\ UNCHANGED <<context, tools, pc, caller, complete_response, response_count,
                   last_actions, accumulated_response, response, yielded, executed,
                   deltas, requests>>
    /\ events' = Append(events, "empty")
    /\ UNCHANGED <<latest, held, batch, outcome, robotvars>>

\* mutant: a JSONDecodeError is handled like any other exception and ends
\* the stream with an error element
LineMalformedMutAborts ==
    /\ pc = "stream" /\ nlines < MaxLines
    /\ nlines' = nlines + 1
    /\ yielded' = Append(yielded, ErrorElement("Error processing LLM response"))
    /\ pc' = "ended"
    /\ events' = Append(events, "malformed")
    /\ UNCHANGED <<latest, held, batch, outcome, robotvars>>
    /\ UNCHANGED <<context, tools, caller, complete_response, response_count,
                   last_actions, accumulated_response, response, executed, deltas,
                   requests>>

\* json.loads raises JSONDecodeError: a warning, the loop goes on
LineMalformed ==
    /\ pc = "stream" /\ nlines < MaxLines
    /\ nlines' = nlines + 1
    /\ UNCHANGED <<context, tools, pc, caller, complete_response, response_count,
                   last_actions, accumulated_response, response, yielded, executed,
                   deltas, requests>>
    /\ events' = Append(events, "malformed")
    /\ UNCHANGED <<latest, held, batch, outcome, robotvars>>

\* an exception that is neither JSONDecodeError nor RequestException leaves
\* the loop and is caught by `except Exception` (lines 315-322)
ProcessingError ==
    /\ yielded' = Append(yielded, ErrorElement("Error processing LLM response"))
    /\ Exhaust(accumulated_response, executed)

\* line.decode('utf-8') raises UnicodeDecodeError (outside the inner try)
LineUndecodable ==
    /\ pc = "stream" /\ nlines < MaxLines
    /\ nlines' = nlines + 1
    /\ ProcessingError
    /\ UNCHANGED <<context, tools, caller, complete_response, response_count,
                   last_actions, accumulated_response, response, deltas, requests>>
    /\ events' = Append(events, "undecodable")
    /\ UNCHANGED <<latest, held, batch, outcome, robotvars>>

\* json.loads returns a value that is not a dict (a number, null, a list, a
\* string): `"context" in chunk`, chunk["context"] or chunk.get raises
\* TypeError or AttributeError, which no inner handler absorbs
LineNonObject ==
    /\ pc = "stream" /\ nlines < MaxLines
    /\ nlines' = nlines + 1
    /\ response_count' = response_count + 1
    /\ ProcessingError
    /\ UNCHANGED <<context, tools, caller, complete_response,
                   last_actions, accumulated_response, response, deltas, requests>>
    /\ events' = Append(events, "nonobject")
    /\ UNCHANGED <<latest, held, batch, outcome, robotvars>>

\* mutant: the buffer is overwritten by the delta instead of extended
AppendResponseMutReplace(buf, chunk) ==
    IF "response" \in DOMAIN chunk THEN chunk.response ELSE buf

\* mutant: the delta is put in front of the buffer
AppendResponseMutPrepends(buf, chunk) ==
    IF "response" \in DOMAIN chunk THEN chunk.response \o buf ELSE buf

\* the buffer after lines 249-251
AppendResponse(buf, chunk) ==
    IF "response" \in DOMAIN chunk THEN buf \o chunk.response ELSE buf

\* self.context after lines 245-247
UpdateContext(ctx, chunk) ==
    IF "context" \in DOMAIN chunk THEN chunk.context ELSE ctx

\* mutant: the action list is remembered only while nothing is remembered
RememberActionsMutFirstOnly(last, actions) ==
    IF last = <<>> THEN actions ELSE last

\* last_actions after lines 258-262
RememberActions(last, actions) ==
    IF actions # last THEN actions ELSE last

\* mutant: the element is handed downstream before the token is stored
ContextAtYieldMutStale(ctx, chunk) == ctx

\* self.context as the callback (line 273) and the consumer (line 276) find
\* it: the update of lines 245-247 has run before
ContextAtYield(ctx, chunk) == UpdateContext(ctx, chunk)

\* json.loads returns a dict: lines 243-280
LineChunk(chunk) ==
    /\ pc = "stream" /\ nlines < MaxLines
    /\ nlines' = nlines + 1
    /\ response_count' = response_count + 1
    /\ context' = UpdateContext(context, chunk)
    /\ latest' = IF "context" \in DOMAIN chunk THEN <<chunk.context>> ELSE latest
    /\ held' = <<ContextAtYield(context, chunk)>>
    /\ complete_response' = AppendResponse(complete_response, chunk)
    /\ deltas' = IF "response" \in DOMAIN chunk
                 THEN Append(deltas, chunk.response) ELSE deltas
    /\ LET parsed_chunk == ParseLLMResponse(complete_response', tools)
           done == "done" \in DOMAIN chunk /\ chunk.done
           chunk_result == [thoughts |-> parsed_chunk.thoughts,
                            actions |-> parsed_chunk.actions,
                            complete |-> done]
           acc == IF caller = "robot"
                  THEN CallbackAccumulated(accumulated_response, chunk_result)
                  ELSE accumulated_response
           ex == executed \o (IF caller = "robot" THEN CallbackCalls(chunk_result) ELSE <<>>)
       IN  /\ last_actions' = RememberActions(last_actions, parsed_chunk.actions)
           /\ accumulated_response' = acc
           /\ yielded' = Append(yielded, chunk_result)
           /\ IF done
              THEN Exhaust(acc, ex)
              ELSE pc' = "stream" /\ executed' = ex
    /\ UNCHANGED <<tools, caller, response, requests>>
    /\ events' = Append(events, "chunk")
    /\ UNCHANGED <<toolvars, robotvars>>

\* the server closes the body: iter_lines ends without a done chunk
StreamClose ==
    /\ pc = "stream"
    /\ Exhaust(accumulated_response, executed)
    /\ UNCHANGED <<context, tools, caller, complete_response, response_count,
                   last_actions, accumulated_response, response, yielded, deltas,
                   requests, nlines>>
    /\ events' = Append(events, "close")
    /\ UNCHANGED <<latest, held, batch, outcome, robotvars>>

\* mutant: a failure in the middle of the stream sends the request again
StreamDisconnectMutRetries ==
    /\ pc = "stream"
    /\ pc' = "open"
    /\ events' = Append(events, "disconnect")
    /\ UNCHANGED <<latest, held, batch, outcome, robotvars>>
    /\ UNCHANGED <<context, tools, caller, complete_response, response_count,
                   last_actions, accumulated_response, response, yielded, executed,
                   deltas, requests, nlines>>

\* iter_lines raises a RequestException (disconnect, read timeout)
StreamDisconnect ==
    /\ pc = "stream"
    /\ yielded' = Append(yielded, ErrorElement("Request failed"))
    /\ Exhaust(accumulated_response, executed)
    /\ UNCHANGED <<context, tools, caller, complete_response, response_count,
                   last_actions, accumulated_response, response, deltas,
                   requests, nlines>>
    /\ events' = Append(events, "disconnect")
    /\ UNCHANGED <<latest, held, batch, outcome, robotvars>>

(***************************************************************************)
(* process                                                                 *)
(***************************************************************************)
\* lines 341-343 and what every outcome of process() shares; for main() the
\* loop over response["actions"] (main.py 481-483) follows the return
ProcessReturns(c, toolsArg, resp) ==
    /\ pc = "idle"
    /\ tools' = PrepareTools(IF toolsArg = None THEN tools ELSE toolsArg)
    /\ caller' = c
    /\ requests' = requests + 1
    /\ response' = resp
    /\ executed' = executed \o (IF c = "main" THEN MainLoopCalls(resp) ELSE <<>>)
    /\ pc' = "ended"
    /\ UNCHANGED <<complete_response, response_count, last_actions,
                   accumulated_response, yielded, deltas, nlines>>

\* requests.post raises a RequestException
ProcessPostFails(c, toolsArg) ==
    /\ ProcessReturns(c, toolsArg, ErrorResponse("Request failed"))
    /\ UNCHANGED context
    /\ events' = Append(events, "post_failed")
    /\ UNCHANGED <<latest, held, batch, outcome, robotvars>>

\* the status code is not 200
ProcessStatusError(c, toolsArg, code) ==
    /\ code # 200
    /\ ProcessReturns(c, toolsArg, ErrorResponse("API returned status code"))
    /\ UNCHANGED context
    /\ events' = Append(events, StatusEvent(code))
    /\ UNCHANGED <<latest, held, batch, outcome, robotvars>>

\* mutant: the exception is not caught and reaches the control loop, which
\* halts
ProcessBadBodyMutRaises(c, toolsArg) ==
    /\ pc = "idle"
    /\ tools' = PrepareTools(IF toolsArg = None THEN tools ELSE toolsArg)
    /\ caller' = c
    /\ requests' = requests + 1
    /\ pc' = "halted"
    /\ events' = Append(events, "bad_body")
    /\ UNCHANGED <<context, complete_response, response_count, last_actions,
                   accumulated_response, response, yielded, executed, deltas,
                   nlines, latest, held, batch, outcome, robotvars>>

\* status 200 but response.json() raises, or returns no dict so that
\* result.get raises: `except Exception`
ProcessBadBody(c, toolsArg) ==
    /\ ProcessReturns(c, toolsArg, ErrorResponse("Processing error"))
    /\ UNCHANGED context
    /\ events' = Append(events, "bad_body")
    /\ UNCHANGED <<latest, held, batch, outcome, robotvars>>

\* mutant: process() returns the text unparsed, as the thoughts
ProcessResultMutUnparsed(result, registry) ==
    IF "response" \in DOMAIN result
    THEN [thoughts |-> result.response, actions |-> <<>>]
    ELSE ErrorResponse("No response received from LLM")

\* lines 390-408: what process() returns for the dict result on a client
\* whose self.tools is registry
ProcessResult(result, registry) ==
    IF "response" \in DOMAIN result
    THEN ParseLLMResponse(result.response, registry)
    ELSE ErrorResponse("No response received from LLM")

\* status 200 and response.json() returns the dict result
ProcessAnswered(c, toolsArg, result) ==
    /\ context' = IF "context" \in DOMAIN result THEN result.context ELSE <<>>
    /\ latest' = IF "context" \in DOMAIN result THEN <<result.context>> ELSE <<>>
    /\ UNCHANGED held
    /\ ProcessReturns(c, toolsArg,
          ProcessResult(result,
              PrepareTools(IF toolsArg = None THEN tools ELSE toolsArg)))
    /\ events' = Append(events, "status_200")
    /\ UNCHANGED <<toolvars, robotvars>>

\* mutant: the interrupt is noticed only when the stream has ended
InterruptMutDrains ==
    /\ pc \in {"open", "stream"} /\ caller = "robot"
    /\ events' = Append(events, "interrupt")
    /\ UNCHANGED <<context, tools, pc, caller, complete_response, response_count,
                   last_actions, accumulated_response, response, yielded, executed,
                   deltas, requests, nlines, latest, held, batch, outcome, robotvars>>

\* the operator interrupts MeeboRobot.start() while _process_streaming waits
\* for the server: KeyboardInterrupt is no Exception, so it leaves the
\* generator and _process_streaming (the check after the loop does not run),
\* start() logs it and stop() runs: running = False, the hardware is released
Interrupt ==
    /\ pc \in {"open", "stream"} /\ caller = "robot"
    /\ pc' = "stopped"
    /\ events' = Append(events, "interrupt")
    /\ UNCHANGED <<context, tools, caller, complete_response, response_count,
                   last_actions, accumulated_response, response, yielded, executed,
                   deltas, requests, nlines, latest, held, batch, outcome, robotvars>>

\* the caller returns: everything scoped to the turn is dropped
Return ==
    /\ pc = "ended"
    /\ pc' = "idle"
    /\ caller' = "none"
    /\ complete_response' = <<>>
    /\ response_count' = 0
    /\ last_actions' = <<>>
    /\ accumulated_response' = NoKeys
    /\ response' = NoResponse
    /\ yielded' = <<>>
    /\ executed' = <<>>
    /\ deltas' = <<>>
    /\ requests' = 0
    /\ nlines' = 0
    /\ events' = <<>>
    /\ latest' = <<>>
    /\ held' = <<>>
    /\ UNCHANGED <<context, tools, batch, outcome, robotvars>>

\* who calls process() with which tools argument: main() with ROBOT_TOOLS,
\* the examples without tools and with a list of their own
Calls == {<<"main", ROBOT_TOOLS>>, <<"example", None>>, <<"example", TwoTools>>}

Next ==
    \/ StartStreaming("robot", ROBOT_TOOLS)
    \/ \E toolsArg \in {None, TwoTools} : StartStreaming("example", toolsArg)
    \/ PostFails
    \/ \E code \in StatusCodes : PostAnswered(code)
    \/ LineEmpty
    \/ LineMalformed
    \/ LineUndecodable
    \/ LineNonObject
    \/ \E chunk \in Chunks : LineChunk(chunk)
    \/ StreamClose
    \/ StreamDisconnect
    \/ Interrupt
    \/ \E cl \in Calls : ProcessPostFails(cl[1], cl[2])
    \/ \E cl \in Calls, code \in StatusCodes : ProcessStatusError(cl[1], cl[2], code)
    \/ \E cl \in Calls : ProcessBadBody(cl[1], cl[2])
    \/ \E cl \in Calls, result \in Results : ProcessAnswered(cl[1], cl[2], result)
    \/ Return

Spec == Init /\ [][Next]_vars

(***************************************************************************)
(* The Tool Executor of the robot: MeeboRobot._handle_tool_calls and        *)
(* MeeboRobot._execute_tool, as functions of the batch they are given.      *)
(* A Python value is a record tagged by its type; a dict is [dict |-> TRUE, *)
(* kv |-> function from its keys to values].                                *)
(***************************************************************************)
MaxBatch == 2
DefaultSpeed == 50
DefaultTimeout == 5

IntVal(i) == [t |-> "int", n |-> i]
StrVal(cs) == [t |-> "str", s |-> cs]
BoolVal(v) == [t |-> "bool", b |-> v]
NoneVal == [t |-> "none"]
Dict(f) == [dict |-> TRUE, kv |-> f]
NotADict == [dict |-> FALSE]
EmptyDict == Dict(<<>>)

n_fly == <<"f","l","y">>

RECURSIVE DigitsValue(_)
\* the number a string of decimal digits denotes
DigitsValue(cs) ==
    IF cs = <<>> THEN 0
    ELSE 10 * DigitsValue(SubSeq(cs, 1, Len(cs) - 1))
         + (CHOOSE d \in 0..9 : ToString(d) = cs[Len(cs)])

\* int(v): [exc |-> TRUE] when it raises ValueError or TypeError
PyInt(v) ==
    IF v.t = "int" THEN [exc |-> FALSE, n |-> v.n]
    ELSE IF v.t = "bool" THEN [exc |-> FALSE, n |-> IF v.b THEN 1 ELSE 0]
    ELSE IF v.t = "str" /\ Strip(v.s) # <<>> /\ \A k \in DOMAIN Strip(v.s) : Strip(v.s)[k] \in Digits
         THEN [exc |-> FALSE, n |-> DigitsValue(Strip(v.s))]
    ELSE [exc |-> TRUE]

\* float(v): on the values modelled (whole numbers, strings, booleans, None)
\* it raises where int(v) raises
PyFloat(v) == PyInt(v)

\* bool(v), as `if text:` takes it
Truthy(v) ==
    IF v.t = "int" THEN v.n # 0
    ELSE IF v.t = "bool" THEN v.b
    ELSE IF v.t = "str" THEN v.s # <<>>
    ELSE FALSE

\* params.get(key, default) on a dict
Get(params, key, default) ==
    IF key \in DOMAIN params.kv THEN params.kv[key] ELSE default

\* the error result of the except branch (lines 399-402)
ToolError == [success |-> FALSE, error |-> "Error executing tool"]

\* what the try body of _execute_tool does up to its return or to the
\* exception it raises: exc, the result returned, the calls made to the
\* hardware. env.fault: the hardware call raises; env.loop_even: loop_count
\* is even
SpeedTool(function_name, params, env) ==
    IF ~params.dict THEN [exc |-> TRUE, calls |-> <<>>]
    ELSE LET speed == PyInt(Get(params, "speed", IntVal(DefaultSpeed)))
         IN  IF speed.exc THEN [exc |-> TRUE, calls |-> <<>>]
             ELSE IF env.fault THEN [exc |-> TRUE, calls |-> <<>>]
             ELSE [exc |-> FALSE,
                   calls |-> <<[dev |-> "motors", op |-> function_name, speed |-> speed.n]>>,
                   result |-> [success |-> TRUE, action |-> function_name, speed |-> speed.n]]

Speak(params, env) ==
    IF ~params.dict THEN [exc |-> TRUE, calls |-> <<>>]
    ELSE LET text == Get(params, "text", StrVal(<<>>))
             wait == Get(params, "wait", BoolVal(FALSE))
         IN  IF ~Truthy(text)
             THEN [exc |-> FALSE, calls |-> <<>>,
                   result |-> [success |-> FALSE, error |-> "Empty text provided"]]
             ELSE IF env.fault THEN [exc |-> TRUE, calls |-> <<>>]
             ELSE [exc |-> FALSE,
                   calls |-> <<[dev |-> "audio", op |-> "say", text |-> text, wait |-> wait]>>,
                   result |-> [success |-> TRUE, action |-> n_speak, text |-> text]]

Listen(params, env) ==
    IF ~params.dict THEN [exc |-> TRUE, calls |-> <<>>]
    ELSE LET timeout == PyFloat(Get(params, "timeout", IntVal(DefaultTimeout)))
         IN  IF timeout.exc THEN [exc |-> TRUE, calls |-> <<>>]
             ELSE IF env.fault THEN [exc |-> TRUE, calls |-> <<>>]
             ELSE [exc |-> FALSE,
                   calls |-> <<[dev |-> "audio", op |-> "listen_for_command",
                                timeout |-> timeout.n]>>,
                   result |-> [success |-> TRUE, action |-> n_listen]]

ExecuteToolBody(function_name, params, env) ==
    IF function_name = n_get_motor_status
    THEN IF env.fault THEN [exc |-> TRUE, calls |-> <<>>]
         ELSE [exc |-> FALSE, calls |-> <<[dev |-> "motors", op |-> "get_status"]>>,
               result |-> [status |-> "motors"]]
    ELSE IF function_name = n_check_battery
    THEN [exc |-> FALSE, calls |-> <<>>,
          result |-> [level |-> 75,
                      status |-> IF env.loop_even THEN "charging" ELSE "discharging"]]
    ELSE IF function_name \in {n_move_forward, n_move_backward, n_turn_left, n_turn_right}
    THEN SpeedTool(function_name, params, env)
    ELSE IF function_name = n_stop
    THEN IF env.fault THEN [exc |-> TRUE, calls |-> <<>>]
         ELSE [exc |-> FALSE, calls |-> <<[dev |-> "motors", op |-> "stop_all"]>>,
               result |-> [success |-> TRUE, action |-> n_stop]]
    ELSE IF function_name = n_speak THEN Speak(params, env)
    ELSE IF function_name = n_listen THEN Listen(params, env)
    ELSE IF function_name = n_capture_image
    THEN IF env.fault THEN [exc |-> TRUE, calls |-> <<>>]
         ELSE [exc |-> FALSE, calls |-> <<[dev |-> "camera", op |-> "get_frame"]>>,
               result |-> [success |-> TRUE, action |-> n_capture_image]]
    ELSE [exc |-> FALSE, calls |-> <<>>,
          result |-> [error |-> "Unknown tool function"]]

\* mutant: _execute_tool without its try/except
ExecuteToolMutNoCatch(function_name, params, env) ==
    LET body == ExecuteToolBody(function_name, params, env)
    IN  IF body.exc THEN [raised |-> TRUE, calls |-> body.calls]
        ELSE [raised |-> FALSE, calls |-> body.calls, result |-> body.result]

\* MeeboRobot._execute_tool: every Exception of the body becomes an error
\* result
ExecuteTool(function_name, params, env) ==
    LET body == ExecuteToolBody(function_name, params, env)
    IN  [raised |-> FALSE, calls |-> body.calls,
         result |-> IF body.exc THEN ToolError ELSE body.result]


\* the "arguments" of a tool call: a str holding the JSON text of a value,
\* a str that is no JSON, or a dict (no str at all)
JsonArgs(v) == [k |-> "json", v |-> v]
BadJsonArgs == [k |-> "badjson"]
ObjectArgs(v) == [k |-> "object", v |-> v]

\* tool calls: a dict with optional "id" and "function"; the function has
\* "name" and optional "arguments"
Call(name, args) == [function |-> [name |-> name, arguments |-> args]]
hi == StrVal(<<"h","i">>)
ToolCalls ==
    { [id |-> "a"] @@ Call(n_move_forward, JsonArgs(Dict([speed |-> IntVal(30)]))),
      Call(n_move_forward, JsonArgs(EmptyDict)),
      Call(n_move_forward, JsonArgs(Dict([speed |-> StrVal(<<"f","a","s","t">>)]))),
      Call(n_move_forward, JsonArgs(NotADict)),
      [function |-> [name |-> n_stop]],
      Call(n_fly, JsonArgs(EmptyDict)),
      Call(n_speak, JsonArgs(Dict([text |-> hi, volume |-> IntVal(3)]))),
      Call(n_speak, JsonArgs(Dict([text |-> hi]))),
      Call(n_listen, JsonArgs(EmptyDict)),
      Call(n_turn_left, BadJsonArgs),
      Call(n_turn_left, ObjectArgs(Dict([speed |-> IntVal(30)]))),
      [id |-> "b"],
      [id |-> "c", function |-> [arguments |-> JsonArgs(EmptyDict)]] }

RECURSIVE BatchesOf(_)
BatchesOf(n) ==
    IF n = 0 THEN {<<>>}
    ELSE BatchesOf(n - 1)
         \cup {Append(b, tc) : b \in {x \in BatchesOf(n - 1) : Len(x) = n - 1},
                               tc \in ToolCalls}

Batches == BatchesOf(MaxBatch)

Envs == [fault : BOOLEAN, loop_even : BOOLEAN]

\* the logging loop (lines 270-274) raises KeyError on a function without name
LoggingRaises(tcs) ==
    \E i \in DOMAIN tcs :
        "function" \in DOMAIN tcs[i] /\ "name" \notin DOMAIN tcs[i].function

\* lines 281-288: function_args, or exc when json.loads raises TypeError
FunctionArgs(function) ==
    IF "arguments" \notin DOMAIN function THEN [exc |-> FALSE, args |-> EmptyDict]
    ELSE IF function.arguments.k = "json" THEN [exc |-> FALSE, args |-> function.arguments.v]
    ELSE IF function.arguments.k = "badjson" THEN [exc |-> FALSE, args |-> EmptyDict]
    ELSE [exc |-> TRUE]

RECURSIVE ExecuteLoop(_, _, _)
\* the loop of lines 278-298 over the calls left, from the results and
\* hardware calls so far
ExecuteLoop(tcs, env, sofar) ==
    IF tcs = <<>> THEN sofar
    ELSE LET tool_call == Head(tcs)
         IN  IF "function" \notin DOMAIN tool_call
             THEN ExecuteLoop(Tail(tcs), env, sofar)
             ELSE LET function_args == FunctionArgs(tool_call.function)
                  IN  IF function_args.exc
                      THEN [sofar EXCEPT !.raised = TRUE]
                      ELSE LET r == ExecuteTool(tool_call.function.name,
                                                function_args.args, env)
                           IN  IF r.raised
                               THEN [sofar EXCEPT !.raised = TRUE,
                                                  !.calls = sofar.calls \o r.calls]
                               ELSE ExecuteLoop(Tail(tcs), env,
                                      [sofar EXCEPT
                                         !.calls = sofar.calls \o r.calls,
                                         !.results = Append(sofar.results,
                                            [tool_call_id |-> IF "id" \in DOMAIN tool_call
                                                              THEN tool_call.id ELSE "unknown",
                                             function_name |-> tool_call.function.name,
                                             result |-> r.result])])

\* MeeboRobot._handle_tool_calls(tool_calls): raised (an exception leaves
\* the method), the results list, the calls made to the hardware
RunToolCalls(tcs, env) ==
    LET start == [pending |-> FALSE, direct |-> FALSE, env |-> env,
                  raised |-> FALSE, results |-> <<>>, calls |-> <<>>]
    IN  IF LoggingRaises(tcs) THEN [start EXCEPT !.raised = TRUE]
        ELSE ExecuteLoop(tcs, env, start)

\* _handle_tool_calls is called with the batch
HandleBatch(env) ==
    /\ outcome = NoOutcome
    /\ outcome' = RunToolCalls(batch, env)
    /\ UNCHANGED <<batch, robotvars>>
    /\ UNCHANGED clientvars

\* the batch holds one well-formed call and _execute_tool is called with
\* its name and its decoded arguments
ExecuteDirect(env) ==
    /\ outcome = NoOutcome
    /\ Len(batch) = 1
    /\ "function" \in DOMAIN batch[1]
    /\ "name" \in DOMAIN batch[1].function
    /\ ~FunctionArgs(batch[1].function).exc
    /\ LET r == ExecuteTool(batch[1].function.name,
                            FunctionArgs(batch[1].function).args, env)
       IN  outcome' = [pending |-> FALSE, direct |-> TRUE, env |-> env,
                       raised |-> r.raised, calls |-> r.calls,
                       results |-> IF r.raised THEN <<>> ELSE <<r.result>>]
    /\ UNCHANGED <<batch, robotvars>>
    /\ UNCHANGED clientvars

InitTools ==
    /\ batch \in Batches
    /\ outcome = NoOutcome
    /\ context = <<>>
    /\ tools = ROBOT_TOOLS
    /\ pc = "idle"
    /\ caller = "none"
    /\ complete_response = <<>>
    /\ response_count = 0
    /\ last_actions = <<>>
    /\ accumulated_response = NoKeys
    /\ response = NoResponse
    /\ yielded = <<>>
    /\ executed = <<>>
    /\ deltas = <<>>
    /\ requests = 0
    /\ nlines = 0
    /\ events = <<>>
    /\ latest = <<>>
    /\ held = <<>>
    /\ RobotConstructed

NextTools ==
    \/ \E env \in Envs : HandleBatch(env)
    \/ \E env \in Envs : ExecuteDirect(env)

SpecTools == InitTools /\ [][NextTools]_vars

(***************************************************************************)
(* The response parser on its own: _parse_llm_response is applied to one   *)
(* complete text on a client with one registry.  The text is held in       *)
(* complete_response, the registry in tools, and the parse in response.    *)
(***************************************************************************)
MaxToolLines == 2

k_speed == <<"s","p","e","e","d">>
Call50 == n_move_forward \o <<"(">> \o k_speed \o <<"=","5","0",")","\n">>
Call30 == n_turn_left \o <<"(">> \o k_speed \o <<"=","3","0",")","\n">>
CallBare == n_turn_left \o <<"(","3","0",")","\n">>
CallMixed == n_turn_left \o <<"(","f","a","s","t",","," ">> \o k_speed
                 \o <<"=","3","0",")","\n">>
CallList == n_move_forward \o <<"(">> \o k_speed \o <<"=","[","7","]",")","\n">>
CallPair == n_move_forward \o <<"(">> \o k_speed
                \o <<"=","[","1",",","2","]",")","\n">>

\* the tool-call lines a text is made of
CallLines == {Call50, Call30, CallBare, CallMixed, CallList, CallPair}

RECURSIVE LinesOf(_)
\* the blocks of at most n tool-call lines
LinesOf(n) ==
    IF n = 0 THEN {<<>>}
    ELSE LET shorter == LinesOf(n - 1)
         IN  shorter \cup {b \o l : b \in shorter, l \in CallLines}

t_avoiding == <<"A","v","o","i","d","i","n","g"," ","o","b","s","t","a","c","l","e",".">>

\* what follows the lines: nothing, a thoughts section, or a thoughts section
\* with an "ACTIONS:" marker and a tool call in it
Endings ==
    { <<>>,
      <<"\n">> \o THOUGHTS_MARK \o <<"\n">> \o t_avoiding,
      <<"\n">> \o THOUGHTS_MARK \o <<"\n","o","k","\n">> \o ACTIONS_MARK
          \o <<"\n">> \o Call30 }

\* the complete texts given to the parser
ParseTexts ==
    { h \o b \o e : h \in {<<>>, ACTIONS_MARK \o <<"\n">>},
                    b \in LinesOf(MaxToolLines), e \in Endings }

\* a registry of move_forward and turn_left, in the simple format
MoveTurnTools == <<SimpleTool(n_move_forward), SimpleTool(n_turn_left)>>

Registries == {ROBOT_TOOLS, TwoTools, MoveTurnTools}

\* _parse_llm_response(complete_response)
Parse ==
    /\ response = NoResponse
    /\ response' = ParseLLMResponse(complete_response, tools)
    /\ UNCHANGED <<context, tools, pc, caller, complete_response, response_count,
                   last_actions, accumulated_response, yielded, executed,
                   deltas, requests, nlines, events, latest, held>>
    /\ UNCHANGED <<toolvars, robotvars>>

InitParse ==
    /\ complete_response \in ParseTexts
    /\ tools \in {PrepareTools(r) : r \in Registries}
    /\ response = NoResponse
    /\ context = <<>>
    /\ pc = "idle"
    /\ caller = "none"
    /\ response_count = 0
    /\ last_actions = <<>>
    /\ accumulated_response = NoKeys
    /\ yielded = <<>>
    /\ executed = <<>>
    /\ deltas = <<>>
    /\ requests = 0
    /\ nlines = 0
    /\ events = <<>>
    /\ latest = <<>>
    /\ held = <<>>
    /\ batch = <<>>
    /\ outcome = NoOutcome
    /\ RobotConstructed

NextParse == Parse

SpecParse == InitParse /\ [][NextParse]_vars

(***************************************************************************)
(* The motor controller and the life cycle of MeeboRobot: construction,    *)
(* motor commands given to the controller, start() and the stop() that its *)
(* finally clause runs.                                                    *)
(***************************************************************************)
MaxSpeed == 100

\* the speed arguments given to the movement commands
Speeds == {-20, 0, 1, 30, 50, 100, 101, 150}

\* how MeeboRobot can be constructed
Hardware == {"dev", "pi", "pi_no_gpio"}

Max(a, b) == IF a >= b THEN a ELSE b
Min(a, b) == IF a <= b THEN a ELSE b
Abs(a) == IF a < 0 THEN 0 - a ELSE a

\* mutant: a speed of zero counts as forward
SetSpeedMutZeroIsForward(left_speed, right_speed) ==
    LET l == Max(0 - MaxSpeed, Min(MaxSpeed, left_speed))
        r == Max(0 - MaxSpeed, Min(MaxSpeed, right_speed))
    IN  [speeds |-> [left |-> Abs(l), right |-> Abs(r)],
         directions |-> [left |-> IF l >= 0 THEN 1 ELSE -1,
                         right |-> IF r >= 0 THEN 1 ELSE -1]]

\* MotorController.set_speed: the speeds and directions it leaves; the
\* simulated logger and _set_physical_motors, which catches every exception,
\* change neither
SetSpeed(left_speed, right_speed) ==
    LET l == Max(0 - MaxSpeed, Min(MaxSpeed, left_speed))
        r == Max(0 - MaxSpeed, Min(MaxSpeed, right_speed))
    IN  [speeds |-> [left |-> Abs(l), right |-> Abs(r)],
         directions |-> [left |-> IF l > 0 THEN 1 ELSE IF l < 0 THEN -1 ELSE 0,
                         right |-> IF r > 0 THEN 1 ELSE IF r < 0 THEN -1 ELSE 0]]

\* MotorController.get_status
GetStatus(m) ==
    [left_motor |-> [speed |-> m.speeds.left, direction |-> m.directions.left],
     right_motor |-> [speed |-> m.speeds.right, direction |-> m.directions.right]]

\* a command reaches the controller before start() is called: from
\* _execute_tool or from a direct user of the controller; the control loop
\* itself gives none
Command(op, speed, m) ==
    /\ loop = "constructed"
    /\ motors' = m
    /\ last_cmd' = <<op, speed>>
    /\ UNCHANGED <<hardware, loop, stopped>>
    /\ UNCHANGED <<clientvars, toolvars>>

MoveForward(speed) == Command("move_forward", speed, SetSpeed(speed, speed))
MoveBackward(speed) == Command("move_backward", speed, SetSpeed(0 - speed, 0 - speed))
TurnLeft(speed) == Command("turn_left", speed, SetSpeed(0 - speed, speed))
TurnRight(speed) == Command("turn_right", speed, SetSpeed(speed, 0 - speed))
StopAll == Command("stop_all", 0, SetSpeed(0, 0))

\* SensorManager.cleanup: with RPi.GPIO missing the manager has switched to
\* simulation without creating sim_logger, and self.sim_logger.info raises
\* AttributeError; GPIO.cleanup() is inside try/except
SensorsCleanupRaises == hardware = "pi_no_gpio"

\* MeeboRobot.start()
Start ==
    /\ loop = "constructed"
    /\ loop' = "running"
    /\ UNCHANGED <<motors, last_cmd, hardware, stopped>>
    /\ UNCHANGED <<clientvars, toolvars>>

\* MeeboRobot.stop(), run by the finally clause of start():
\* sensors.cleanup(), then motors.stop_all(), camera.release(), audio.cleanup()
Stop ==
    IF SensorsCleanupRaises
    THEN /\ stopped' = "raised"
         /\ UNCHANGED <<motors, last_cmd>>
    ELSE /\ stopped' = "clean"
         /\ motors' = SetSpeed(0, 0)
         /\ last_cmd' = <<"stop_all", 0>>

\* the operator interrupts the loop: KeyboardInterrupt is caught, stop() runs
LoopInterrupted ==
    /\ loop = "running"
    /\ loop' = "interrupted"
    /\ Stop
    /\ UNCHANGED hardware
    /\ UNCHANGED <<clientvars, toolvars>>

\* an exception escapes a cycle (get_all_readings raises the same
\* AttributeError when sim_logger is missing): stop() runs, the exception
\* goes on to the caller of start()
CycleRaises ==
    /\ loop = "running"
    /\ loop' = "crashed"
    /\ Stop
    /\ UNCHANGED hardware
    /\ UNCHANGED <<clientvars, toolvars>>

InitRobot ==
    /\ motors = MotorsAtRest
    /\ last_cmd = <<>>
    /\ hardware \in Hardware
    /\ loop = "constructed"
    /\ stopped = "no"
    /\ context = <<>>
    /\ tools = ROBOT_TOOLS
    /\ pc = "idle"
    /\ caller = "none"
    /\ complete_response = <<>>
    /\ response_count = 0
    /\ last_actions = <<>>
    /\ accumulated_response = NoKeys
    /\ response = NoResponse
    /\ yielded = <<>>
    /\ executed = <<>>
    /\ deltas = <<>>
    /\ requests = 0
    /\ nlines = 0
    /\ events = <<>>
    /\ latest = <<>>
    /\ held = <<>>
    /\ batch = <<>>
    /\ outcome = NoOutcome

NextRobot ==
    \/ \E speed \in Speeds : MoveForward(speed)
    \/ \E speed \in Speeds : MoveBackward(speed)
    \/ \E speed \in Speeds : TurnLeft(speed)
    \/ \E speed \in Speeds : TurnRight(speed)
    \/ StopAll
    \/ Start
    \/ LoopInterrupted
    \/ CycleRaises

SpecRobot == InitRobot /\ [][NextRobot]_vars

(***************************************************************************)
(* Properties                                                              *)
(***************************************************************************)
Last(seq) == seq[Len(seq)]

\* the turn in progress is a process_streaming turn
StreamingTurn == caller # "none" /\ response = NoResponse

\* an element as the error branches of process_streaming build it
IsErrorElement(e) ==
    /\ e.complete
    /\ e.actions = <<>>
    /\ e.thoughts # <<>>
    /\ e.thoughts[1] = "Error: "

\* the (tool, params) pairs of an action list
Pairs(actions) ==
    {[tool |-> actions[k].tool, params |-> actions[k].params] : k \in DOMAIN actions}

\* how many times the pair was executed in this turn
TimesExecuted(pair) == Cardinality({i \in DOMAIN executed : executed[i] = pair})

\* a is a prefix of b
IsPrefix(a, b) == Len(a) <= Len(b) /\ SubSeq(b, 1, Len(a)) = a

\* the action lists of the snapshots yielded so far only grow
NonDecreasing ==
    \A i \in 1..(Len(yielded) - 1) : IsPrefix(yielded[i].actions, yielded[i + 1].actions)

\* C1: within a turn no (tool, params) pair is executed by the Tool Executor
\* more than once, in the streaming path and in main()'s loop alike.
C1_NoPairExecutedTwice ==
    \A i, j \in DOMAIN executed : executed[i] = executed[j] => i = j

\* C2: when a streaming turn of the robot whose snapshots were non-decreasing
\* has ended, every (tool, params) pair that appeared in a snapshot has been
\* executed exactly once.
C2_EachPairDispatchedOnce ==
    (pc = "ended" /\ caller = "robot" /\ StreamingTurn /\ NonDecreasing) =>
        \A i \in DOMAIN yielded :
            \A pair \in Pairs(yielded[i].actions) : TimesExecuted(pair) = 1

\* C3: no action with a tool name outside the active registry is in any
\* yielded or returned action list or is executed, and the registered actions
\* of the same text are kept: with registry {move_forward, stop} the text
\* "ACTIONS:\nstop()\nfly()\nteleport(x=5)\n" yields exactly the stop action.
C3_UnknownToolsDropped ==
    /\ \A i \in DOMAIN yielded :
           \A pair \in Pairs(yielded[i].actions) : pair.tool \in AvailableTools(tools)
    /\ response # NoResponse =>
           \A pair \in Pairs(response.actions) : pair.tool \in AvailableTools(tools)
    /\ \A pair \in Pairs(last_actions) : pair.tool \in AvailableTools(tools)
    /\ \A pair \in Pairs(executed) : pair.tool \in AvailableTools(tools)
    /\ ( /\ AvailableTools(tools) = {n_move_forward, n_stop}
         /\ complete_response = fA \o fU
         /\ yielded # <<>>
         /\ ~IsErrorElement(Last(yielded)) )
       => Last(yielded).actions = <<[tool |-> n_stop, params |-> <<>>]>>

C3_Witness ==
    /\ AvailableTools(tools) = {n_move_forward, n_stop}
    /\ complete_response = fA \o fU
    /\ Len(yielded) = 2
    /\ Last(yielded).actions = <<[tool |-> n_stop, params |-> <<>>]>>

\* C4: when a streaming turn has ended, every action of every snapshot
\* yielded during the turn is an action of the parse of the complete text.
C4_NoUncommittedAction ==
    (pc = "ended" /\ StreamingTurn) =>
        \A i \in DOMAIN yielded :
            Pairs(yielded[i].actions)
                \subseteq Pairs(ParseLLMResponse(complete_response, tools).actions)

\* C5: the thoughts and actions of the element yielded for the latest
\* fragment equal the direct parse of the concatenation of all text deltas
\* received, whatever the earlier snapshots were.
C5_MonotonicConvergence ==
    (yielded # <<>> /\ ~IsErrorElement(Last(yielded))) =>
        LET direct == ParseLLMResponse(Concat(deltas), tools)
        IN  /\ Last(yielded).thoughts = direct.thoughts
            /\ Last(yielded).actions = direct.actions

C5_Witness ==
    /\ pc = "ended"
    /\ Len(deltas) = 2
    /\ Len(yielded) = 2
    /\ Last(yielded).complete
    /\ ~IsErrorElement(Last(yielded))
    /\ Last(yielded).actions # <<>>
    /\ yielded[1].actions # yielded[2].actions

\* C6: parsing a fixed buffer gives the same result at any two points of the
\* client's lifetime: no step changes the parse of "ACTIONS:\nturn_left(speed=30)".
C6_ParseIsPure ==
    [][ParseLLMResponse(fM, tools') = ParseLLMResponse(fM, tools)]_vars

\* C7: after a non-200 answer to a streaming request exactly one element has
\* been yielded, it is an error element, the generator has ended and no line
\* of the body was read.
C7_StatusErrorYieldsOne ==
    (StreamingTurn /\ \E i \in DOMAIN events : events[i] \in {"status_404", "status_500"}) =>
        /\ pc = "ended"
        /\ Len(events) = 1
        /\ Len(yielded) = 1
        /\ IsErrorElement(yielded[1])
        /\ nlines = 0
        /\ response_count = 0

C7_Witness ==
    /\ StreamingTurn
    /\ events = <<"status_500">>
    /\ pc = "ended"
    /\ Len(yielded) = 1

\* C8: after a transport failure of a streaming request (requests.post raises,
\* or the body breaks off) the generator has ended, the last element yielded
\* is the one error element of the turn and reports the failed request, and
\* no request was sent a second time.
C8_TransportFailureYieldsOneError ==
    /\ requests <= 1
    /\ (StreamingTurn /\ \E i \in DOMAIN events : events[i] \in {"post_failed", "disconnect"}) =>
        /\ pc = "ended"
        /\ Last(events) \in {"post_failed", "disconnect"}
        /\ yielded # <<>>
        /\ Last(yielded) = ErrorElement("Request failed")
        /\ \A i \in 1..(Len(yielded) - 1) : ~IsErrorElement(yielded[i])
        /\ requests = 1

C8_Witness ==
    /\ StreamingTurn
    /\ events # <<>>
    /\ Last(events) = "disconnect"
    /\ Len(yielded) = 2
    /\ ~IsErrorElement(yielded[1])
    /\ IsErrorElement(yielded[2])
    /\ requests = 1

C10_OnlyTransportErrorsEndTurn ==
    (\E i \in DOMAIN yielded : IsErrorElement(yielded[i])) =>
        \E j \in DOMAIN events :
            events[j] \in {"post_failed", "disconnect", "status_404", "status_500"}


\* C11: whenever the generator of process_streaming is exhausted, it has
\* yielded at least one element and the last one has complete = True.
C11_SequenceEndsWithMarker ==
    (pc = "ended" /\ StreamingTurn) =>
        /\ yielded # <<>>
        /\ Last(yielded).complete

\* C12: when an element is passed to the callback and yielded, self.context
\* already holds the continuation token of its fragment: what a caller that
\* stops consuming holds is the latest token received so far.
C12_TokenStoredBeforeYield ==
    (StreamingTurn /\ held # <<>>) =>
        /\ held[1] = context
        /\ latest # <<>> => held[1] = latest[1]

C12_Witness ==
    /\ StreamingTurn
    /\ pc = "stream"
    /\ Len(yielded) = 2
    /\ latest # <<>>
    /\ held = latest

\* C13: the stored context changes only by being replaced with a token the
\* server delivered in that step; a step that delivers none leaves it as
\* it was.
C13_ContextChangesOnlyByToken ==
    [][context' # context => (latest' # <<>> /\ context' = latest'[1])]_vars

\* C14: the set of tool names validation accepts is always the one
\* registered at construction.
C14_RegistryNeverMutated ==
    AvailableTools(tools) = AvailableTools(ROBOT_TOOLS)

\* C16: in a turn of main() the calls to the executor are the actions of the
\* returned list, in the list's order, and the list is in the order of the
\* lines of the ACTIONS block: "stop()" on the first line and
\* "turn_left(speed=30)" on a later line give stop first.
C16_ExecutionFollowsLineOrder ==
    /\ (pc = "ended" /\ caller = "main") =>
          /\ Len(executed) = Len(response.actions)
          /\ \A i \in DOMAIN executed :
                /\ executed[i].tool = response.actions[i].tool
                /\ executed[i].params = response.actions[i].params
    /\ LET parsed == ParseLLMResponse(fA \o fM, ROBOT_TOOLS).actions
       IN  /\ Len(parsed) = 2
           /\ parsed[1].tool = n_stop
           /\ parsed[2].tool = n_turn_left

C16_Witness ==
    /\ pc = "ended"
    /\ caller = "main"
    /\ Len(executed) = 2
    /\ executed[1].tool = n_stop
    /\ executed[2].tool = n_turn_left

\* what ends a turn with a failure: the request fails, a status other than
\* 200, a body that cannot be processed, a broken stream
FailureEvents ==
    {"post_failed", "status_404", "status_500", "bad_body", "disconnect",
     "undecodable", "nonobject"}

\* C17: after a turn-level failure the turn has ended with an empty action
\* list, nothing was executed, no exception reached the control loop and
\* the loop can start its next cycle.
C17_TurnFailureDegrades ==
    (events # <<>> /\ Last(events) \in FailureEvents) =>
        /\ pc = "ended"
        /\ ENABLED Return
        /\ executed = <<>>
        /\ IF response # NoResponse
           THEN response.actions = <<>>
           ELSE yielded # <<>> /\ Last(yielded).actions = <<>>

C17_Witness ==
    /\ caller = "main"
    /\ pc = "ended"
    /\ events = <<"bad_body">>
    /\ response.actions = <<>>

C19_InterruptAbandonsTurn ==
    (\E i \in DOMAIN events : events[i] = "interrupt") =>
        /\ pc = "stopped"
        /\ Last(events) = "interrupt"
        /\ executed = <<>>
        /\ latest # <<>> => context = latest[1]

C19_Witness ==
    /\ pc = "stopped"
    /\ latest # <<>>
    /\ yielded # <<>>
    /\ ~Last(yielded).complete
    /\ context = latest[1]


\* C15: when _handle_tool_calls has run on a batch, no exception has left
\* it and every call of the batch that names a function has its result
\* recorded, whatever failed while preparing or running another call.
C15_BatchSurvivesFailure ==
    (outcome # NoOutcome /\ ~outcome.direct) =>
        /\ ~outcome.raised
        /\ Len(outcome.results)
             = Cardinality({i \in DOMAIN batch : "function" \in DOMAIN batch[i]})

\* the parameter keys _execute_tool reads
KnownKeys == {"speed", "text", "wait", "timeout"}

\* the dict without the keys no tool reads
WithoutUnknownKeys(params) ==
    Dict([key \in (DOMAIN params.kv) \cap KnownKeys |-> params.kv[key]])

\* C20: _execute_tool raises nothing and returns a result for every tool
\* name and parameter value; an unknown tool gives an error result and
\* touches no hardware; keys no tool reads change nothing; a missing speed
\* is 50, a missing timeout 5, a missing wait false.
C20_ExecutorNeverRaises ==
    (outcome # NoOutcome /\ outcome.direct) =>
        LET name == batch[1].function.name
            params == FunctionArgs(batch[1].function).args
            works == ~outcome.env.fault
        IN  /\ ~outcome.raised
            /\ Len(outcome.results) = 1
            /\ name = n_fly =>
                  /\ outcome.results[1] = [error |-> "Unknown tool function"]
                  /\ outcome.calls = <<>>
            /\ params.dict =>
                  LET r == ExecuteTool(name, WithoutUnknownKeys(params), outcome.env)
                  IN  /\ outcome.results = <<r.result>>
                      /\ outcome.calls = r.calls
            /\ (name = n_move_forward /\ params.dict /\ "speed" \notin DOMAIN params.kv /\ works) =>
                  /\ outcome.calls = <<[dev |-> "motors", op |-> n_move_forward, speed |-> 50]>>
                  /\ outcome.results[1].speed = 50
            /\ (name = n_listen /\ params.dict /\ "timeout" \notin DOMAIN params.kv /\ works) =>
                  outcome.calls = <<[dev |-> "audio", op |-> "listen_for_command", timeout |-> 5]>>
            /\ (name = n_speak /\ params.dict /\ "wait" \notin DOMAIN params.kv /\ works
                  /\ outcome.calls # <<>>) =>
                  /\ outcome.calls[1].wait = BoolVal(FALSE)
                  /\ outcome.results[1].success

C20_Witness ==
    /\ outcome # NoOutcome
    /\ outcome.direct
    /\ ~outcome.raised
    /\ batch[1].function.name = n_move_forward
    /\ ~outcome.env.fault
    /\ outcome.results = <<ToolError>>
    /\ outcome.calls = <<>>

\* the parse _parse_llm_response returned in the parser's own specification
Parsed == caller = "none" /\ response # NoResponse

\* C21: with move_forward and turn_left registered, the text
\* "ACTIONS:\nmove_forward(speed=50)\nturn_left(speed=30)\n\nTHOUGHTS:\nAvoiding obstacle."
\* parses to the thoughts "Avoiding obstacle." and exactly the two actions
\* move_forward {speed: 50} and turn_left {speed: 30}, in that order, with
\* integer values
ObstacleText ==
    ACTIONS_MARK \o <<"\n">> \o Call50 \o Call30
        \o <<"\n">> \o THOUGHTS_MARK \o <<"\n">> \o t_avoiding

C21_ObstacleExampleParses ==
    (/\ Parsed
     /\ complete_response = ObstacleText
     /\ {n_move_forward, n_turn_left} \subseteq AvailableTools(tools))
    => response =
         [thoughts |-> t_avoiding,
          actions |-> << [tool |-> n_move_forward,
                          params |-> (k_speed :> <<"int", "5", "0">>)],
                         [tool |-> n_turn_left,
                          params |-> (k_speed :> <<"int", "3", "0">>)] >>]

C21_Witness ==
    /\ Parsed
    /\ complete_response = ObstacleText
    /\ tools = PrepareTools(MoveTurnTools)
    /\ Len(response.actions) = 2

TokensOf(line) ==
    LET l == Strip(line)
        params_str == Strip(SubSeq(l, Find(l, <<"(">>) + 1, RFind(l, ")") - 1))
    IN  IF params_str = <<>> THEN <<>> ELSE SplitAll(params_str, ",")

\* a tool-call line whose parameter list is well formed: every token is
\* key=value and no value opens an array
WellFormedCall(line) ==
    \A i \in DOMAIN TokensOf(line) :
        /\ Contains(TokensOf(line)[i], <<"=">>)
        /\ ~Contains(TokensOf(line)[i], <<"[">>)

\* C27: parameter parsing fails closed: a tool-call line with a malformed
\* parameter list yields no action, so a text made of one such line gives
\* no action, and every parameter value of every emitted action is a scalar
C27_ParamsFailClosed ==
    Parsed =>
      /\ \A l \in CallLines :
            (complete_response = ACTIONS_MARK \o <<"\n">> \o l /\ ~WellFormedCall(l))
            => response.actions = <<>>
      /\ \A i \in DOMAIN response.actions :
            \A k \in DOMAIN response.actions[i].params :
                response.actions[i].params[k][1] \in {"int", "str", "bool"}

\* C22: when the server answers a non-streaming request with a status other
\* than 200, process() returns a result that has an "error" field whose text
\* is an "API Error" message
C22_StatusErrorHasErrorField ==
    (/\ response # NoResponse
     /\ events # <<>>
     /\ Last(events) \in {"status_404", "status_500"})
    => /\ "error" \in DOMAIN response
       /\ response.error = "API Error"

\* C24: the buffer starts empty in each turn and only grows by appending:
\* it is the concatenation of the deltas of this turn, in order, and the
\* element yielded for a fragment carries the parse of that concatenation
\* and, as its complete flag, the fragment's done flag (the generator has
\* ended exactly when the flag is set)
C24_BufferIsTurnScoped ==
    StreamingTurn =>
      /\ pc = "open" => complete_response = <<>>
      /\ complete_response = Concat(deltas)
      /\ (events # <<>> /\ Last(events) = "chunk") =>
            LET snapshot == ParseLLMResponse(complete_response, tools)
            IN  /\ Last(yielded).thoughts = snapshot.thoughts
                /\ Last(yielded).actions = snapshot.actions
                /\ Last(yielded).complete = (pc = "ended")

C24_Witness ==
    /\ StreamingTurn
    /\ context # <<>>
    /\ Len(deltas) = 2
    /\ deltas[1] # deltas[2]
    /\ Last(events) = "chunk"
    /\ ~Last(yielded).complete
    /\ Last(yielded).actions # <<>>

\* the elements yielded for fragments, without the error elements
Snapshots == SelectSeq(yielded, LAMBDA e : ~IsErrorElement(e))

\* C25: the remembered action list always equals the action list of the
\* most recent parse (the empty list before the first parse), so a fragment
\* is registered as a change exactly when its parsed action list differs
\* from the previous snapshot's
C25_ChangeDetection ==
    StreamingTurn =>
        last_actions = IF Snapshots = <<>> THEN <<>> ELSE Last(Snapshots).actions

C25_Witness ==
    /\ StreamingTurn
    /\ Len(yielded) = 2
    /\ yielded[1].actions # <<>>
    /\ yielded[2].actions # yielded[1].actions
    /\ ~IsErrorElement(yielded[2])
    /\ last_actions = yielded[2].actions

C23_StatusAfterForwardAndStop ==
    (hardware = "dev" /\ last_cmd # <<>>) =>
      /\ (last_cmd[1] = "move_forward" /\ 0 < last_cmd[2] /\ last_cmd[2] <= 100)
           => GetStatus(motors) =
                [left_motor |-> [speed |-> last_cmd[2], direction |-> 1],
                 right_motor |-> [speed |-> last_cmd[2], direction |-> 1]]
      /\ last_cmd[1] = "stop_all"
           => GetStatus(motors) =
                [left_motor |-> [speed |-> 0, direction |-> 0],
                 right_motor |-> [speed |-> 0, direction |-> 0]]

C23_Witness ==
    /\ hardware = "dev"
    /\ loop = "constructed"
    /\ last_cmd = <<"move_forward", 50>>
    /\ GetStatus(motors).left_motor = [speed |-> 50, direction |-> 1]

\* C30: whenever the control loop of start() has been left, by an operator
\* interrupt or by an exception escaping a cycle, stop() has run to its end
\* and both motors are at speed 0 and direction 0, whatever movement was
\* executed last
C30_LoopExitStopsMotors ==
    loop \in {"interrupted", "crashed"} =>
      /\ stopped = "clean"
      /\ GetStatus(motors) =
           [left_motor |-> [speed |-> 0, direction |-> 0],
            right_motor |-> [speed |-> 0, direction |-> 0]]

=============================================================================
